---- MODULE Spec2Model ----
(***************************************************************************)
(* Delivery pipeline of meta-hub: the routes, delivery_events and          *)
(* delivery_attempts tables and the tasks that write them: the webhook's   *)
(* route resolution and un-awaited inline first delivery (meta-webhook     *)
(* findMatchingRoutes, processWhatsAppEntries, deliverToDestination), the  *)
(* worker's process cycle, resend and test (delivery-worker handleProcess, *)
(* handleResend, handleTest, deliverEvent) and the UI's cancelEvent.       *)
(* Every await of the source is a suspension point, so every database call *)
(* is one step; a fetch or a read that changes locals only is one step     *)
(* with the call that follows it.                                          *)
(***************************************************************************)
EXTENDS Integers, Sequences, FiniteSets, TLC

\* ---------------------------------------------------------------- bounds
NumWorkers == 2
NumResenders == 1
MaxTicks == 2
MaxRows == 2
NoResendTicks == 5
NoResendRows == 6
SerialTicks == 15
SerialRows == 7
MaxAttemptNumber == 8
LateTicks == 10
LateRows == 4
ApiRows == 2
NumRoutes == 2
MaxWebhooks == 1
MaxRequests == 1
OAuthSlack == 1
MaxIssued == 1
MaxCallbacks == 2

\* ------------------------------------------------------ program constants
DefaultMaxAttempts == 5
BackoffBaseMs == 60000
BackoffCapMs == 3600000
InlineRetryMs == 60000
BatchLimit == 50

\* SQL NULL of a nullable column (timestamps, status_code)
Null == -1

\* one delivery_events row is followed: no handler couples two events
EventIds == {1}
DestIds == {1}
Workers == 1..NumWorkers
Resenders == (NumWorkers + 1)..(NumWorkers + NumResenders)
InlineTask(e) == NumWorkers + NumResenders + e
InlineTasks == {InlineTask(e) : e \in EventIds}
Testers == {NumWorkers + NumResenders + Cardinality(EventIds) + 1}
TaskIds == Workers \cup Resenders \cup InlineTasks \cup Testers

\* callers, and the workspace_members rows of the one workspace that owns the
\* event and the destination: a member, a removed member; user 3 has no row
Users == {1, 2, 3}
WorkspaceMembers ==
  {[user_id |-> 1, deleted_at |-> Null], [user_id |-> 2, deleted_at |-> 0]}

\* what fetch can give: a 2xx, a non-2xx, or no response (network error, abort)
StatusCodes == {200, 500, Null}

VARIABLES
  events,        \* delivery_events: id -> row (exists = FALSE before the insert)
  attempts,      \* delivery_attempts: event id -> rows in insertion order
  destinations,  \* destinations: id -> row
  now,           \* wall clock, ms
  pc,            \* task -> position in its handler
  loc,           \* task -> locals of its handler
  resent,        \* event id -> a resend request was accepted for it
  failedLog,     \* event id -> the transitions to failed made so far, in order
  reply,         \* task of a user's request -> status of its last response (0: none)
  routes,        \* routes, each joined with its destination: id -> row
  enqueued,      \* routing columns of the delivery_events rows the webhook inserted
  inbound,       \* the change the webhook processed last
  received,      \* number of changes the webhook has processed
  lost,          \* routes matched for the last change whose insert failed
  response,      \* the webhook's last response: status and processed count
  requests,      \* HTTP requests sent to destinations: sender, auth, headers
  oauthNow,      \* Date.now() of the OAuth function, ms
  secret,        \* META_APP_SECRET of the OAuth function
  issued,        \* state values the OAuth start handlers have returned
  integrations,  \* integrations rows the OAuth callbacks stored
  callback,      \* the last OAuth callback: its state parameter, outcome and number
  testlog        \* the last test call: HTTP calls made, what fetch gave, body returned

delivery == <<events, attempts, destinations, now, pc, loc, resent, failedLog, reply>>
routing == <<routes, enqueued, inbound, received, lost, response>>
oauth == <<oauthNow, secret, issued, integrations, callback>>
vars == <<events, attempts, destinations, now, pc, loc, resent, failedLog, reply,
          routes, enqueued, inbound, received, lost, response, requests,
          oauthNow, secret, issued, integrations, callback, testlog>>

\* SQL NULL (or the empty string, which the code treats alike) of a text column
NullText == ""

\* tenants, and the source identifiers (WhatsApp phone number ids, lead form
\* ids) their integrations own
Workspaces == {1, 2}
SourceIds == {"A", "B"}
SourceOwner(s) == IF s = "A" THEN 1 ELSE 2
SourceTypes == {"whatsapp", "forms"}
EventTypes == {"messages", "status_read"}
RouteIds == 1..NumRoutes

\* routes.filter_rules: null, or {event_types: [...]}
FilterNull == [is_null |-> TRUE, event_types |-> {}]
FilterMessages == [is_null |-> FALSE, event_types |-> {"messages"}]

\* a routes row with the is_active of the destination it is joined with
RouteRows ==
  [workspace_id : Workspaces, source_type : SourceTypes,
   source_id : SourceIds \cup {NullText}, is_active : BOOLEAN,
   deleted_at : {Null, 0}, filter_rules : {FilterNull, FilterMessages},
   dest_active : BOOLEAN]

\* the route behind the one event the delivery tasks follow
CatchAllRoute ==
  [workspace_id |-> 1, source_type |-> "whatsapp", source_id |-> NullText,
   is_active |-> TRUE, deleted_at |-> Null, filter_rules |-> FilterNull,
   dest_active |-> TRUE]

NoInbound == [source_type |-> "null", source_id |-> NullText, event_type |-> "null"]

\* destinations.auth_type and the auth_config and headers a destination may hold
AuthTypes == {"none", "hmac", "bearer", "basic", "api_key"}
AuthConfigs ==
  [token : {NullText, "tok"}, username : {"u"}, password : {"p"},
   header_name : {NullText, "X-Key"}, api_key : {NullText, "key"},
   secret : {NullText, "s1"}]
DestHeaders ==
  {{}, {[name |-> "X-Custom", scheme |-> NullText, credential |-> <<"v">>]}}

NoResponse == [status |-> 0, processed |-> 0]

NoEvent ==
  [exists |-> FALSE, status |-> "pending", attempts_count |-> 0,
   max_attempts |-> DefaultMaxAttempts, next_retry_at |-> Null,
   delivered_at |-> Null, failed_at |-> Null, error_message |-> "null",
   destination_id |-> 1]

NoLocals ==
  [ev |-> 0, batch |-> <<>>, attemptNumber |-> 0, max_attempts |-> 0,
   statusCode |-> Null, seen |-> "null", user |-> 0]

\* no test call yet
NoTest == [calls |-> 0, fetched |-> Null, body |-> [success |-> FALSE, status_code |-> Null]]

\* ------------------------------------------------------------ OAuth state
\* 10 * 60 * 1000: the age after which a state value is expired
OAuthStateMaxAgeMs == 600000

\* workspace_members rows over both workspaces (those of workspace 1 are
\* WorkspaceMembers)
Memberships ==
  {[workspace_id |-> 1, user_id |-> m.user_id, deleted_at |-> m.deleted_at] :
     m \in WorkspaceMembers}
  \cup {[workspace_id |-> 2, user_id |-> 3, deleted_at |-> Null]}

\* the membership check of the OAuth start handlers
isWorkspaceMember(w, u) ==
  \E m \in Memberships :
    m.workspace_id = w /\ m.user_id = u /\ m.deleted_at = Null

\* values of META_APP_SECRET, and a key that is not the server's
Secrets == {"k1", "k2"}
ForeignKey == "k0"

\* instants Date.now() can show: within OAuthSlack ms of the start, and from
\* the expiry age on
OAuthTimes ==
  (0..OAuthSlack) \cup {OAuthStateMaxAgeMs + i : i \in 0..OAuthSlack}

\* the JSON object inside a state value
StatePayloads == [workspace_id : Workspaces, user_id : Users, ts : OAuthTimes]

\* HMAC-SHA256 of msg under key: equal exactly for equal key and message
hmac(key, msg) == [key |-> key, msg |-> msg]

\* the absent signature part of a state value without "."
NoSignature == [key |-> NullText, msg |-> [workspace_id |-> 0, user_id |-> 0, ts |-> 0]]

\* btoa(JSON.stringify(payload)): the state value without a signature part
encodeState(payload) == [data |-> payload, sig |-> NoSignature]

\* btoa(data) + "." + hex(HMAC-SHA256(META_APP_SECRET, data))
signState(payload, key) == [data |-> payload, sig |-> hmac(key, payload)]

\* verifyState at instant t under META_APP_SECRET = key: the payload is
\* state.data when ok
verifyState(state, key, t) ==
  IF state.sig = NoSignature THEN [ok |-> FALSE, error |-> "Invalid state parameter"]
  ELSE IF state.sig # hmac(key, state.data)
    THEN [ok |-> FALSE, error |-> "Invalid state signature"]
  ELSE IF t - state.data.ts > OAuthStateMaxAgeMs
    THEN [ok |-> FALSE, error |-> "State expired"]
  ELSE [ok |-> TRUE, error |-> NullText]

\* JSON.parse(atob(stateParam)) and the age check of the callback that reads
\* an unsigned state: atob throws on the "." of a signed value
decodeState(state, t) ==
  IF state.sig # NoSignature THEN [ok |-> FALSE, error |-> "invalid_state"]
  ELSE IF t - state.data.ts > OAuthStateMaxAgeMs
    THEN [ok |-> FALSE, error |-> "expired"]
  ELSE [ok |-> TRUE, error |-> NullText]

\* state parameters a caller of the callback URL can present: the values the
\* start handlers returned, any unsigned value, any payload under a signature
\* taken from a returned value, and any payload signed with a foreign key
StateParams ==
  issued
  \cup {encodeState(p) : p \in StatePayloads}
  \cup {[data |-> p, sig |-> s.sig] : p \in StatePayloads, s \in issued}
  \cup {signState(p, ForeignKey) : p \in StatePayloads}

NoCallback == [state |-> encodeState([workspace_id |-> 1, user_id |-> 1, ts |-> 0]),
               outcome |-> NullText, seq |-> 0]

InitOAuth ==
  /\ oauthNow = 0
  /\ secret = "k1"
  /\ issued = {}
  /\ integrations = {}
  /\ callback = NoCallback

InitDelivery ==
  /\ events = [e \in EventIds |-> NoEvent]
  /\ attempts = [e \in EventIds |-> <<>>]
  /\ destinations = [d \in DestIds |-> [is_active |-> TRUE, deleted_at |-> Null]]
  /\ now = 0
  /\ pc = [t \in TaskIds |-> "idle"]
  /\ loc = [t \in TaskIds |-> NoLocals]
  /\ resent = [e \in EventIds |-> FALSE]
  /\ failedLog = [e \in EventIds |-> <<>>]
  /\ reply = [t \in Resenders \cup Testers |-> 0]
  /\ testlog = NoTest

Init ==
  /\ InitDelivery
  /\ routes = [r \in RouteIds |-> CatchAllRoute]
  /\ enqueued = {}
  /\ inbound = NoInbound
  /\ received = 0
  /\ lost = {}
  /\ response = NoResponse
  /\ requests = {}
  /\ InitOAuth

\* any routes table, before any webhook
InitRoutes ==
  /\ InitDelivery
  /\ routes \in [RouteIds -> RouteRows]
  /\ enqueued = {}
  /\ inbound = NoInbound
  /\ received = 0
  /\ lost = {}
  /\ response = NoResponse
  /\ requests = {}
  /\ InitOAuth

\* ---------------------------------------------------------------- helpers
Min(a, b) == IF a < b THEN a ELSE b

RECURSIVE Pow2(_)
Pow2(n) == IF n <= 0 THEN 1 ELSE 2 * Pow2(n - 1)

\* the membership query: a row of the user with deleted_at null; the check
\* that follows it skipped
isMemberSkipped(u) == TRUE

isMember(u) ==
  \E m \in WorkspaceMembers : m.user_id = u /\ m.deleted_at = Null

Members == {u \in Users : isMember(u)}

\* res.ok
Ok(code) == code >= 200 /\ code <= 299

\* the JSON body handleTest returns after its fetch
testResult(code) == [success |-> Ok(code), status_code |-> code]

\* the backoff with exponent attemptNumber for attemptNumber - 1
backoffMsNoShift(attemptNumber) ==
  Min(BackoffBaseMs * Pow2(attemptNumber), BackoffCapMs)

\* the backoff with a division for the multiplication
backoffMsShrinking(attemptNumber) ==
  Min(BackoffBaseMs \div Pow2(attemptNumber - 1), BackoffCapMs)

\* delivery-worker: Math.min(60000 * Math.pow(2, attemptNumber - 1), 3600000)
backoffMs(attemptNumber) ==
  Min(BackoffBaseMs * Pow2(attemptNumber - 1), BackoffCapMs)

\* the dlq test with > for >=
ReachedMaxStrict(attemptNumber, max_attempts) ==
  attemptNumber > (IF max_attempts = 0 THEN 5 ELSE max_attempts)

\* the attempt number without the + 1
nextAttemptNumberSame(attempts_count) == attempts_count

\* delivery-worker: (event.attempts_count || 0) + 1
nextAttemptNumber(attempts_count) == attempts_count + 1

\* the dlq test with = for >=
ReachedMaxExact(attemptNumber, max_attempts) ==
  attemptNumber = (IF max_attempts = 0 THEN 5 ELSE max_attempts)

\* delivery-worker: attemptNumber >= (event.max_attempts || 5)
ReachedMax(attemptNumber, max_attempts) ==
  attemptNumber >= (IF max_attempts = 0 THEN 5 ELSE max_attempts)

\* a task that has marked the event processing and not yet written the outcome
AttemptPcs == {"fetch", "final", "i_fetch", "i_final"}
InAttempt(e) == {t \in TaskIds : loc[t].ev = e /\ pc[t] \in AttemptPcs}
\* a task that has read the event and will insert an attempt row
Committed(e) ==
  {t \in TaskIds : loc[t].ev = e /\ pc[t] \in {"mark", "fetch", "i_mark", "i_fetch"}}

\* ------------------------------------------------------------------ clock
\* Time is read only by comparing now with a next_retry_at and by stamping
\* rows, so the clock moves from one scheduled retry time to another.
Tick(limit) ==
  /\ \E e \in EventIds :
       /\ events[e].exists
       /\ events[e].next_retry_at > now
       /\ events[e].next_retry_at <= limit * BackoffBaseMs
       /\ now' = events[e].next_retry_at
  /\ UNCHANGED <<events, attempts, destinations, pc, loc, resent, failedLog, reply,
               routing, requests, oauth, testlog>>

\* Nothing starts a process cycle at the moment an event becomes due: the
\* worker's /process is an HTTP call like any other.  While an event is due and
\* no task is running, a minute passes without a cycle.
Late(limit) ==
  /\ \A t \in TaskIds : pc[t] \in {"idle", "done"}
  /\ \E e \in EventIds :
       /\ events[e].exists
       /\ events[e].status \in {"pending", "failed"}
       /\ events[e].next_retry_at <= now
  /\ now + BackoffBaseMs <= limit * BackoffBaseMs
  /\ now' = now + BackoffBaseMs
  /\ UNCHANGED <<events, attempts, destinations, pc, loc, resent, failedLog, reply,
               routing, requests, oauth, testlog>>

\* ------------------------------------------------------ request headers
\* buildAuthHeaders (the same function in both edge functions): a header is a
\* name, a scheme and what follows it
buildAuthHeaders(authType, authConfig) ==
  CASE authType = "bearer" ->
         IF authConfig.token # NullText
         THEN {[name |-> "Authorization", scheme |-> "Bearer",
                credential |-> <<authConfig.token>>]}
         ELSE {}
    [] authType = "basic" ->
         {[name |-> "Authorization", scheme |-> "Basic",
           credential |-> <<authConfig.username, authConfig.password>>]}
    [] authType = "api_key" ->
         IF authConfig.header_name # NullText /\ authConfig.api_key # NullText
         THEN {[name |-> authConfig.header_name, scheme |-> NullText,
                credential |-> <<authConfig.api_key>>]}
         ELSE {}
    [] OTHER -> {}

\* the headers of a delivery request: the fixed ones, the destination's own,
\* the auth headers
requestHeaders(eventId, destHeaders, authType, authConfig) ==
  {[name |-> "Content-Type", scheme |-> NullText, credential |-> <<"application/json">>],
   [name |-> "User-Agent", scheme |-> NullText, credential |-> <<"MetaHub-Webhook/1.0">>],
   [name |-> "X-MetaHub-Event-Id", scheme |-> NullText, credential |-> <<eventId>>]}
    \cup destHeaders \cup buildAuthHeaders(authType, authConfig)

\* a fetch of a destination by the inline delivery, by deliverEvent (process
\* and resend) or by handleTest
sendRequest(sender, eventId, destHeaders, authType, authConfig) ==
  /\ Cardinality(requests) < MaxRequests
  /\ requests' = requests \cup
       {[by |-> sender, auth_type |-> authType, auth_config |-> authConfig,
         headers |-> requestHeaders(eventId, destHeaders, authType, authConfig)]}
  /\ UNCHANGED <<delivery, routing, oauth, testlog>>

deliverToDestination_request(destHeaders, authType, authConfig) ==
  sendRequest("inline", "1", destHeaders, authType, authConfig)

deliverEvent_request(destHeaders, authType, authConfig) ==
  sendRequest("worker", "1", destHeaders, authType, authConfig)

handleTest_request(destHeaders, authType, authConfig) ==
  sendRequest("test", "test", destHeaders, authType, authConfig)

\* ------------------------------------------- meta-webhook (route resolution)
\* findMatchingRoutes: the query (source_type, is_active, deleted_at), then the
\* loop's two skips (source_id, destination); the order by priority plays no
\* part in which routes are returned
findMatchingRoutes(sourceType, sourceId) ==
  {r \in RouteIds :
     /\ routes[r].source_type = sourceType
     /\ routes[r].is_active
     /\ routes[r].deleted_at = Null
     /\ ~(/\ routes[r].source_id # NullText
          /\ sourceId # NullText
          /\ routes[r].source_id # sourceId)
     /\ routes[r].dest_active}

\* the delivery_events rows inserted for one change, one per matched route
\* whose insert succeeds: status pending, next_retry_at now, attempts_count by
\* the column default; ids are handed out in insertion order
eventsFor(sourceType, sourceId, eventType, inserted) ==
  {[id |-> Cardinality(enqueued) + Cardinality({q \in inserted : q <= r}),
    route_id |-> r, workspace_id |-> routes[r].workspace_id,
    source_type |-> sourceType, source_id |-> sourceId,
    event_type |-> eventType, seq |-> received + 1,
    status |-> "pending", next_retry_at |-> now, attempts_count |-> 0] :
     r \in inserted}

\* processed counted per matched route, stored or not
processedCountMatched(matched, failing) == Cardinality(matched)

\* processed++ after each insert without error
processedCount(matched, failing) == Cardinality(matched \ failing)

\* handleWebhookPost for an envelope of one change: the routes are matched, an
\* insert that errors is logged and skipped, and the answer is 200 with the
\* processed count
handleWebhookPost(sourceType, sourceId, eventType) ==
  /\ received < MaxWebhooks
  /\ received' = received + 1
  /\ inbound' = [source_type |-> sourceType, source_id |-> sourceId,
                 event_type |-> eventType]
  /\ \E failing \in SUBSET findMatchingRoutes(sourceType, sourceId) :
       LET matched == findMatchingRoutes(sourceType, sourceId)
       IN /\ enqueued' = enqueued \cup
               eventsFor(sourceType, sourceId, eventType, matched \ failing)
          /\ lost' = failing
          /\ response' = [status |-> 200,
                          processed |-> processedCount(matched, failing)]
  /\ UNCHANGED <<routes, delivery, requests, oauth, testlog>>

\* processWhatsAppEntries, one change: phone_number_id of the metadata or null
processWhatsAppEntries(phoneNumberId, eventType) ==
  handleWebhookPost("whatsapp", phoneNumberId, eventType)

\* processLeadGenEntries, one change of field leadgen: form_id or null
processLeadGenEntries(formId) ==
  handleWebhookPost("forms", formId, "leadgen")

\* -------------------------------------------------- meta-webhook (inline)
\* processWhatsAppEntries / processLeadGenEntries, one matched route: insert
\* the event (status pending, next_retry_at now, column defaults) and call
\* deliverToDestination without awaiting it
processEntries(e) ==
  /\ ~events[e].exists
  /\ \A p \in EventIds : p < e => events[p].exists
  /\ destinations[NoEvent.destination_id].is_active
  /\ events' = [events EXCEPT ![e] =
       [NoEvent EXCEPT !.exists = TRUE, !.status = "pending", !.next_retry_at = now]]
  /\ pc' = [pc EXCEPT ![InlineTask(e)] = "i_mark"]
  /\ loc' = [loc EXCEPT ![InlineTask(e)] = [NoLocals EXCEPT !.ev = e]]
  /\ UNCHANGED <<attempts, destinations, now, resent, failedLog, reply, routing, requests, oauth, testlog>>

deliverToDestination_mark(t) ==
  /\ pc[t] = "i_mark"
  /\ events' = [events EXCEPT ![loc[t].ev] =
       [@ EXCEPT !.status = "processing", !.attempts_count = 1]]
  /\ pc' = [pc EXCEPT ![t] = "i_fetch"]
  /\ UNCHANGED <<attempts, destinations, now, loc, resent, failedLog, reply, routing, requests, oauth, testlog>>

\* fetch, then insert the attempt row; the response is held in locals only, so
\* the two awaits are one step of the tables
deliverToDestination_attempt(t, code) ==
  /\ pc[t] = "i_fetch"
  /\ attempts' = [attempts EXCEPT ![loc[t].ev] =
       Append(@, [attempt_number |-> 1, status_code |-> code])]
  /\ loc' = [loc EXCEPT ![t].statusCode = code]
  /\ pc' = [pc EXCEPT ![t] = "i_final"]
  /\ UNCHANGED <<events, destinations, now, resent, failedLog, reply, routing, requests, oauth, testlog>>

deliverToDestination_final(t) ==
  /\ pc[t] = "i_final"
  /\ events' = [events EXCEPT ![loc[t].ev] =
       IF Ok(loc[t].statusCode)
       THEN [@ EXCEPT !.status = "delivered", !.delivered_at = now,
                      !.error_message = "null"]
       ELSE [@ EXCEPT !.status = "failed", !.error_message = "error",
                      !.failed_at = now, !.next_retry_at = now + InlineRetryMs]]
  /\ failedLog' =
       IF Ok(loc[t].statusCode) THEN failedLog
       ELSE [failedLog EXCEPT ![loc[t].ev] =
              Append(@, [n |-> 1, at |-> now, retry |-> now + InlineRetryMs])]
  /\ pc' = [pc EXCEPT ![t] = "done"]
  /\ loc' = [loc EXCEPT ![t] = NoLocals]
  /\ UNCHANGED <<attempts, destinations, now, resent, reply, routing, requests, oauth, testlog>>

\* ------------------------------------------------ delivery-worker tasks
RECURSIVE SortedSeq(_)
SortedSeq(S) ==
  IF S = {} THEN <<>>
  ELSE LET m == CHOOSE x \in S : \A y \in S : x <= y
       IN <<m>> \o SortedSeq(S \ {m})

\* the query with status = pending alone
ReadyPendingOnly(e) ==
  /\ events[e].exists
  /\ events[e].status = "pending"
  /\ (events[e].next_retry_at <= now \/ events[e].next_retry_at = Null)

\* handleProcess's query: status in (pending, failed), next_retry_at <= now or
\* null, ordered by created_at (ids are handed out in creation order), limit 50
Ready(e) ==
  /\ events[e].exists
  /\ events[e].status \in {"pending", "failed"}
  /\ (events[e].next_retry_at <= now \/ events[e].next_retry_at = Null)

ReadyBatch ==
  LET s == SortedSeq({e \in EventIds : Ready(e)})
  IN SubSeq(s, 1, Min(Len(s), BatchLimit))

\* where a task goes when deliverEvent returns: the next event of the batch
\* (handleProcess's for loop) or the end of the handler
ReturnPc(t) ==
  IF t \in Workers /\ Len(loc[t].batch) > 1 THEN "read" ELSE "idle"
ReturnLoc(t) ==
  IF t \in Workers /\ Len(loc[t].batch) > 1
  THEN [NoLocals EXCEPT !.batch = Tail(loc[t].batch), !.ev = Head(Tail(loc[t].batch))]
  ELSE NoLocals

\* handleResend answers 200 with deliverEvent's result
ReturnReply(t) ==
  IF t \in Resenders THEN [reply EXCEPT ![t] = 200] ELSE reply

\* worker slots are interchangeable: a new cycle takes the lowest free slot
handleProcess_select(t) ==
  /\ pc[t] = "idle"
  /\ \A u \in Workers : u < t => pc[u] # "idle"
  /\ ReadyBatch # <<>>
  /\ pc' = [pc EXCEPT ![t] = "read"]
  /\ loc' = [loc EXCEPT ![t] = [NoLocals EXCEPT !.batch = ReadyBatch, !.ev = Head(ReadyBatch)]]
  /\ UNCHANGED <<events, attempts, destinations, now, resent, failedLog, reply,
               routing, requests, oauth, testlog>>

\* select event with its destination; inactive destination -> cancel branch
deliverEvent_read(t, maxRows) ==
  /\ pc[t] = "read"
  /\ LET e == loc[t].ev
         dest == destinations[events[e].destination_id]
     IN IF ~dest.is_active
        THEN /\ pc' = [pc EXCEPT ![t] = "cancel"]
             /\ UNCHANGED loc
        ELSE /\ Len(attempts[e]) + Cardinality(Committed(e)) < maxRows
             /\ pc' = [pc EXCEPT ![t] = "mark"]
             /\ loc' = [loc EXCEPT ![t].attemptNumber = nextAttemptNumber(events[e].attempts_count),
                                   ![t].max_attempts = events[e].max_attempts]
  /\ UNCHANGED <<events, attempts, destinations, now, resent, failedLog, reply,
               routing, requests, oauth, testlog>>

\* mutant of deliverEvent_cancel: the event is left for a retry and the skipped
\* attempt is counted
deliverEvent_cancelCounted(t) ==
  /\ pc[t] = "cancel"
  /\ events' = [events EXCEPT ![loc[t].ev] =
       [@ EXCEPT !.status = "failed", !.error_message = "Destination inactive",
                 !.attempts_count = @ + 1]]
  /\ pc' = [pc EXCEPT ![t] = ReturnPc(t)]
  /\ loc' = [loc EXCEPT ![t] = ReturnLoc(t)]
  /\ reply' = ReturnReply(t)
  /\ UNCHANGED <<attempts, destinations, now, resent, failedLog, routing, requests, oauth, testlog>>

deliverEvent_cancel(t) ==
  /\ pc[t] = "cancel"
  /\ events' = [events EXCEPT ![loc[t].ev] =
       [@ EXCEPT !.status = "cancelled", !.error_message = "Destination inactive"]]
  /\ pc' = [pc EXCEPT ![t] = ReturnPc(t)]
  /\ loc' = [loc EXCEPT ![t] = ReturnLoc(t)]
  /\ reply' = ReturnReply(t)
  /\ UNCHANGED <<attempts, destinations, now, resent, failedLog, routing, requests, oauth, testlog>>

deliverEvent_mark(t) ==
  /\ pc[t] = "mark"
  /\ events' = [events EXCEPT ![loc[t].ev] =
       [@ EXCEPT !.status = "processing", !.attempts_count = loc[t].attemptNumber]]
  /\ pc' = [pc EXCEPT ![t] = "fetch"]
  /\ UNCHANGED <<attempts, destinations, now, loc, resent, failedLog, reply, routing, requests, oauth, testlog>>

deliverEvent_attempt(t, code) ==
  /\ pc[t] = "fetch"
  /\ attempts' = [attempts EXCEPT ![loc[t].ev] =
       Append(@, [attempt_number |-> loc[t].attemptNumber, status_code |-> code])]
  /\ loc' = [loc EXCEPT ![t].statusCode = code]
  /\ pc' = [pc EXCEPT ![t] = "final"]
  /\ UNCHANGED <<events, destinations, now, resent, failedLog, reply, routing, requests, oauth, testlog>>

deliverEvent_final(t) ==
  /\ pc[t] = "final"
  /\ events' = [events EXCEPT ![loc[t].ev] =
       IF Ok(loc[t].statusCode)
       THEN [@ EXCEPT !.status = "delivered", !.delivered_at = now,
                      !.error_message = "null", !.next_retry_at = Null]
       ELSE IF ReachedMax(loc[t].attemptNumber, loc[t].max_attempts)
       THEN [@ EXCEPT !.status = "dlq", !.error_message = "error",
                      !.failed_at = now, !.next_retry_at = Null]
       ELSE [@ EXCEPT !.status = "failed", !.error_message = "error",
                      !.failed_at = now,
                      !.next_retry_at = now + backoffMs(loc[t].attemptNumber)]]
  /\ failedLog' =
       IF Ok(loc[t].statusCode) \/ ReachedMax(loc[t].attemptNumber, loc[t].max_attempts)
       THEN failedLog
       ELSE [failedLog EXCEPT ![loc[t].ev] =
              Append(@, [n |-> loc[t].attemptNumber, at |-> now,
                         retry |-> now + backoffMs(loc[t].attemptNumber)])]
  /\ pc' = [pc EXCEPT ![t] = ReturnPc(t)]
  /\ loc' = [loc EXCEPT ![t] = ReturnLoc(t)]
  /\ reply' = ReturnReply(t)
  /\ UNCHANGED <<attempts, destinations, now, resent, routing, requests, oauth, testlog>>

\* handleResend: select the event's workspace_id and status, then the caller's
\* membership row (both reads, one step) ...
handleResend_read(t, e, u) ==
  /\ pc[t] = "idle"
  /\ events[e].exists
  /\ pc' = [pc EXCEPT ![t] = "r_check"]
  /\ loc' = [loc EXCEPT ![t] =
       [NoLocals EXCEPT !.ev = e, !.seen = events[e].status, !.user = u]]
  /\ UNCHANGED <<events, attempts, destinations, now, resent, failedLog, reply,
               routing, requests, oauth, testlog>>

\* ... 403 "Not a member of this workspace" ...
handleResend_forbidden(t) ==
  /\ pc[t] = "r_check"
  /\ ~isMember(loc[t].user)
  /\ reply' = [reply EXCEPT ![t] = 403]
  /\ pc' = [pc EXCEPT ![t] = "idle"]
  /\ loc' = [loc EXCEPT ![t] = NoLocals]
  /\ UNCHANGED <<events, attempts, destinations, now, resent, failedLog, routing, requests, oauth, testlog>>

\* ... 400 "Can only resend failed or DLQ events" on the status that was read ...
handleResend_reject(t) ==
  /\ pc[t] = "r_check"
  /\ isMember(loc[t].user)
  /\ loc[t].seen \notin {"failed", "dlq"}
  /\ reply' = [reply EXCEPT ![t] = 400]
  /\ pc' = [pc EXCEPT ![t] = "idle"]
  /\ loc' = [loc EXCEPT ![t] = NoLocals]
  /\ UNCHANGED <<events, attempts, destinations, now, resent, failedLog, routing, requests, oauth, testlog>>

\* ... else reset for retry (update by id alone), then deliverEvent
handleResend_reset(t) ==
  /\ pc[t] = "r_check"
  /\ isMember(loc[t].user)
  /\ loc[t].seen \in {"failed", "dlq"}
  /\ events' = [events EXCEPT ![loc[t].ev] =
       [@ EXCEPT !.status = "pending", !.next_retry_at = now,
                 !.error_message = "null", !.failed_at = Null]]
  /\ resent' = [resent EXCEPT ![loc[t].ev] = TRUE]
  /\ pc' = [pc EXCEPT ![t] = "read"]
  /\ UNCHANGED <<attempts, destinations, now, loc, failedLog, reply, routing, requests, oauth, testlog>>

\* handleTest: select the destination (404 when it is deleted), then the
\* caller's membership row ...
handleTest_read(t, d, u) ==
  /\ pc[t] = "idle"
  /\ testlog' = NoTest
  /\ IF destinations[d].deleted_at # Null
     THEN /\ reply' = [reply EXCEPT ![t] = 404]
          /\ UNCHANGED <<pc, loc>>
     ELSE /\ pc' = [pc EXCEPT ![t] = "t_check"]
          /\ loc' = [loc EXCEPT ![t] = [NoLocals EXCEPT !.user = u]]
          /\ UNCHANGED reply
  /\ UNCHANGED <<events, attempts, destinations, now, resent, failedLog,
               routing, requests, oauth>>

\* ... 403 "Not a member of this workspace" ...
handleTest_forbidden(t) ==
  /\ pc[t] = "t_check"
  /\ ~isMember(loc[t].user)
  /\ reply' = [reply EXCEPT ![t] = 403]
  /\ pc' = [pc EXCEPT ![t] = "idle"]
  /\ loc' = [loc EXCEPT ![t] = NoLocals]
  /\ UNCHANGED <<events, attempts, destinations, now, resent, failedLog, routing, requests, oauth, testlog>>

\* mutant of handleTest_fetch: the test call is recorded as a DeliveryAttempt
handleTest_fetchRecorded(t, code) ==
  /\ pc[t] = "t_check"
  /\ isMember(loc[t].user)
  /\ loc' = [loc EXCEPT ![t].statusCode = code]
  /\ testlog' = [testlog EXCEPT !.calls = @ + 1, !.fetched = code]
  /\ pc' = [pc EXCEPT ![t] = "t_reply"]
  /\ attempts' = [e \in EventIds |-> IF events[e].exists /\ Len(attempts[e]) < ApiRows
                                      THEN Append(attempts[e], [attempt_number |-> 0, status_code |-> code])
                                      ELSE attempts[e]]
  /\ UNCHANGED <<events, destinations, now, resent, failedLog, reply,
               routing, requests, oauth>>

\* ... else one fetch of the destination with the sample payload ...
handleTest_fetch(t, code) ==
  /\ pc[t] = "t_check"
  /\ isMember(loc[t].user)
  /\ loc' = [loc EXCEPT ![t].statusCode = code]
  /\ testlog' = [testlog EXCEPT !.calls = @ + 1, !.fetched = code]
  /\ pc' = [pc EXCEPT ![t] = "t_reply"]
  /\ UNCHANGED <<events, attempts, destinations, now, resent, failedLog, reply,
               routing, requests, oauth>>

\* ... and 200 with the outcome in the body; nothing is written
handleTest_reply(t) ==
  /\ pc[t] = "t_reply"
  /\ reply' = [reply EXCEPT ![t] = 200]
  /\ testlog' = [testlog EXCEPT !.body = testResult(loc[t].statusCode)]
  /\ pc' = [pc EXCEPT ![t] = "idle"]
  /\ loc' = [loc EXCEPT ![t] = NoLocals]
  /\ UNCHANGED <<events, attempts, destinations, now, resent, failedLog, routing, requests, oauth>>

\* ------------------------------------------------------------ UI mutations
cancelEvent(e) ==
  /\ events[e].exists
  /\ events[e].status \in {"pending", "failed", "dlq"}
  /\ events' = [events EXCEPT ![e].status = "cancelled"]
  /\ UNCHANGED <<attempts, destinations, now, pc, loc, resent, failedLog, reply,
               routing, requests, oauth, testlog>>

updateDestination(d, active) ==
  /\ destinations[d].is_active # active
  /\ destinations' = [destinations EXCEPT ![d].is_active = active]
  /\ UNCHANGED <<events, attempts, now, pc, loc, resent, failedLog, reply, routing, requests, oauth, testlog>>

\* deleteDestination of the destinations page: sets deleted_at on the one row
deleteDestination(d) ==
  /\ destinations[d].deleted_at = Null
  /\ destinations' = [destinations EXCEPT ![d].deleted_at = now]
  /\ UNCHANGED <<events, attempts, now, pc, loc, resent, failedLog, reply, routing, requests, oauth, testlog>>

DeliveryTasks == Workers \cup Resenders

\* the task stops (the isolate of the answered webhook request is shut down, a
\* worker runs out of time) after it marked the event processing and before
\* it recorded the outcome
taskStops(t) ==
  /\ pc[t] \in {"i_fetch", "i_final", "fetch", "final"}
  /\ pc' = [pc EXCEPT ![t] = IF t \in InlineTasks THEN "done" ELSE "idle"]
  /\ loc' = [loc EXCEPT ![t] = NoLocals]
  /\ UNCHANGED <<events, attempts, destinations, now, resent, failedLog, reply,
               routing, requests, oauth, testlog>>

Next ==
  \/ Tick(MaxTicks)
  \/ \E e \in EventIds : processEntries(e)
  \/ \E t \in InlineTasks : deliverToDestination_mark(t)
  \/ \E t \in InlineTasks, c \in StatusCodes : deliverToDestination_attempt(t, c)
  \/ \E t \in InlineTasks : deliverToDestination_final(t)
  \/ \E t \in Workers : handleProcess_select(t)
  \/ \E t \in DeliveryTasks : deliverEvent_read(t, MaxRows)
  \/ \E t \in DeliveryTasks : deliverEvent_cancel(t)
  \/ \E t \in DeliveryTasks : deliverEvent_mark(t)
  \/ \E t \in DeliveryTasks, c \in StatusCodes : deliverEvent_attempt(t, c)
  \/ \E t \in DeliveryTasks : deliverEvent_final(t)
  \/ \E t \in Resenders, e \in EventIds, u \in Members : handleResend_read(t, e, u)
  \/ \E t \in Resenders : handleResend_reject(t)
  \/ \E t \in Resenders : handleResend_reset(t)
  \/ \E e \in EventIds : cancelEvent(e)
  \/ \E d \in DestIds, b \in BOOLEAN : updateDestination(d, b)

Spec == Init /\ [][Next]_vars

\* The tasks that never involve a user: the inline first delivery and process
\* cycles, against a destination that stays active and always answers 500.
NextNoResend ==
  \/ Tick(NoResendTicks)
  \/ \E e \in EventIds : processEntries(e)
  \/ \E t \in InlineTasks : deliverToDestination_mark(t)
  \/ \E t \in InlineTasks : deliverToDestination_attempt(t, 500)
  \/ \E t \in InlineTasks : deliverToDestination_final(t)
  \/ \E t \in Workers : handleProcess_select(t)
  \/ \E t \in Workers : deliverEvent_read(t, NoResendRows)
  \/ \E t \in Workers : deliverEvent_mark(t)
  \/ \E t \in Workers : deliverEvent_attempt(t, 500)
  \/ \E t \in Workers : deliverEvent_final(t)

SpecNoResend == Init /\ [][NextNoResend]_vars

\* One task at a time: a webhook, a process cycle or a resend starts only when
\* no other task is running (the scenarios S1-S3 of the specification).
AllQuiet == \A t \in TaskIds : pc[t] \in {"idle", "done"}

NextSerial ==
  \/ Tick(SerialTicks)
  \/ \E e \in EventIds : AllQuiet /\ processEntries(e)
  \/ \E t \in InlineTasks : deliverToDestination_mark(t)
  \/ \E t \in InlineTasks, c \in StatusCodes : deliverToDestination_attempt(t, c)
  \/ \E t \in InlineTasks : deliverToDestination_final(t)
  \/ \E t \in Workers : AllQuiet /\ handleProcess_select(t)
  \/ \E t \in DeliveryTasks : deliverEvent_read(t, SerialRows)
  \/ \E t \in DeliveryTasks : deliverEvent_mark(t)
  \/ \E t \in DeliveryTasks, c \in StatusCodes : deliverEvent_attempt(t, c)
  \/ \E t \in DeliveryTasks : deliverEvent_final(t)
  \/ \E t \in Resenders, e \in EventIds, u \in Members :
       AllQuiet /\ handleResend_read(t, e, u)
  \/ \E t \in Resenders : handleResend_reject(t)
  \/ \E t \in Resenders : handleResend_reset(t)

SpecSerial == Init /\ [][NextSerial]_vars

\* One task at a time against a destination that always answers 500, process
\* cycles starting at any minute from the time an event is due.  A resend
\* finds the event failed or dlq here, so it is never rejected.
NextLate ==
  \/ Tick(LateTicks)
  \/ Late(LateTicks)
  \/ \E e \in EventIds : AllQuiet /\ processEntries(e)
  \/ \E t \in InlineTasks : deliverToDestination_mark(t)
  \/ \E t \in InlineTasks : deliverToDestination_attempt(t, 500)
  \/ \E t \in InlineTasks : deliverToDestination_final(t)
  \/ \E t \in Workers : AllQuiet /\ handleProcess_select(t)
  \/ \E t \in DeliveryTasks : deliverEvent_read(t, LateRows)
  \/ \E t \in DeliveryTasks : deliverEvent_mark(t)
  \/ \E t \in DeliveryTasks : deliverEvent_attempt(t, 500)
  \/ \E t \in DeliveryTasks : deliverEvent_final(t)
  \/ \E t \in Resenders, e \in EventIds, u \in Members :
       AllQuiet /\ handleResend_read(t, e, u)
  \/ \E t \in Resenders : handleResend_reset(t)

SpecLate == Init /\ [][NextLate]_vars

\* One task at a time, with a user who deletes the destination at any moment.
NextDelete ==
  \/ Tick(MaxTicks)
  \/ \E e \in EventIds : AllQuiet /\ processEntries(e)
  \/ \E t \in InlineTasks : deliverToDestination_mark(t)
  \/ \E t \in InlineTasks, c \in StatusCodes : deliverToDestination_attempt(t, c)
  \/ \E t \in InlineTasks : deliverToDestination_final(t)
  \/ \E t \in Workers : AllQuiet /\ handleProcess_select(t)
  \/ \E t \in DeliveryTasks : deliverEvent_read(t, MaxRows)
  \/ \E t \in DeliveryTasks : deliverEvent_mark(t)
  \/ \E t \in DeliveryTasks, c \in StatusCodes : deliverEvent_attempt(t, c)
  \/ \E t \in DeliveryTasks : deliverEvent_final(t)
  \/ \E t \in Resenders, e \in EventIds, u \in Members :
       AllQuiet /\ handleResend_read(t, e, u)
  \/ \E t \in Resenders : handleResend_reject(t)
  \/ \E t \in Resenders : handleResend_reset(t)
  \/ \E d \in DestIds : deleteDestination(d)

SpecDelete == Init /\ [][NextDelete]_vars

\* One task at a time, process cycles that keep running and a clock that
\* advances, with tasks that may stop in the middle of an attempt.
NextRun ==
  \/ Tick(SerialTicks)
  \/ \E e \in EventIds : AllQuiet /\ processEntries(e)
  \/ \E t \in InlineTasks : deliverToDestination_mark(t)
  \/ \E t \in InlineTasks, c \in StatusCodes : deliverToDestination_attempt(t, c)
  \/ \E t \in InlineTasks : deliverToDestination_final(t)
  \/ \E t \in Workers : AllQuiet /\ handleProcess_select(t)
  \/ \E t \in Workers : deliverEvent_read(t, SerialRows)
  \/ \E t \in Workers : deliverEvent_mark(t)
  \/ \E t \in Workers, c \in StatusCodes : deliverEvent_attempt(t, c)
  \/ \E t \in Workers : deliverEvent_final(t)

NextLive ==
  \/ NextRun
  \/ \E t \in InlineTasks \cup Workers : taskStops(t)

SpecLive == Init /\ [][NextLive]_vars /\ WF_vars(NextRun)

\* The requests of users, members or not, against an event created by the
\* webhook: one resend and one test at a time, cancel and destination updates,
\* with no process cycle.
ApiResenders == {NumWorkers + 1}

NextApi ==
  \/ \E e \in EventIds : processEntries(e)
  \/ \E t \in InlineTasks : deliverToDestination_mark(t)
  \/ \E t \in InlineTasks, c \in StatusCodes : deliverToDestination_attempt(t, c)
  \/ \E t \in InlineTasks : deliverToDestination_final(t)
  \/ \E t \in ApiResenders, e \in EventIds, u \in Users : handleResend_read(t, e, u)
  \/ \E t \in ApiResenders : handleResend_forbidden(t)
  \/ \E t \in ApiResenders : handleResend_reject(t)
  \/ \E t \in ApiResenders : handleResend_reset(t)
  \/ \E t \in ApiResenders : deliverEvent_read(t, ApiRows)
  \/ \E t \in ApiResenders : deliverEvent_cancel(t)
  \/ \E t \in ApiResenders : deliverEvent_mark(t)
  \/ \E t \in ApiResenders, c \in StatusCodes : deliverEvent_attempt(t, c)
  \/ \E t \in ApiResenders : deliverEvent_final(t)
  \/ \E t \in Testers, d \in DestIds, u \in Users : handleTest_read(t, d, u)
  \/ \E t \in Testers : handleTest_forbidden(t)
  \/ \E t \in Testers, c \in StatusCodes : handleTest_fetch(t, c)
  \/ \E t \in Testers : handleTest_reply(t)
  \/ \E e \in EventIds : cancelEvent(e)
  \/ \E d \in DestIds, b \in BOOLEAN : updateDestination(d, b)
  \/ \E d \in DestIds : deleteDestination(d)

SpecApi == Init /\ [][NextApi]_vars

\* The webhook's route resolution over any routes table.
NextRoutes ==
  \/ \E s \in SourceIds \cup {NullText}, f \in EventTypes : processWhatsAppEntries(s, f)
  \/ \E s \in SourceIds \cup {NullText} : processLeadGenEntries(s)

SpecRoutes == InitRoutes /\ [][NextRoutes]_vars

\* The requests sent to destinations of every auth_type and auth_config.
NextRequests ==
  \/ \E h \in DestHeaders, a \in AuthTypes, c \in AuthConfigs :
       deliverToDestination_request(h, a, c)
  \/ \E h \in DestHeaders, a \in AuthTypes, c \in AuthConfigs :
       deliverEvent_request(h, a, c)
  \/ \E h \in DestHeaders, a \in AuthTypes, c \in AuthConfigs :
       handleTest_request(h, a, c)

SpecRequests == Init /\ [][NextRequests]_vars

\* ----------------------------------------------------------- OAuth handlers
\* the integrations table after the callback that looks for the workspace's
\* row first: .single() gives a row only if there is exactly one
upsertIntegration(w, u) ==
  LET existing == {i \in integrations : i.workspace_id = w}
      row == [workspace_id |-> w, connected_by |-> u]
  IN IF Cardinality(existing) = 1
       THEN (integrations \ existing) \cup {row}
       ELSE integrations \cup {row}

\* handleStart returning an unsigned state value
handleStart(w, u) ==
  LET state == encodeState([workspace_id |-> w, user_id |-> u, ts |-> oauthNow])
  IN /\ isWorkspaceMember(w, u)
     /\ Cardinality(issued) < MaxIssued
     /\ state \notin issued
     /\ issued' = issued \cup {state}
     /\ UNCHANGED <<delivery, routing, requests, testlog, oauthNow, secret, integrations, callback>>

\* handleStart returning a signed state value
handleStart_signed(w, u) ==
  LET state == signState([workspace_id |-> w, user_id |-> u, ts |-> oauthNow], secret)
  IN /\ isWorkspaceMember(w, u)
     /\ Cardinality(issued) < MaxIssued
     /\ state \notin issued
     /\ issued' = issued \cup {state}
     /\ UNCHANGED <<delivery, routing, requests, testlog, oauthNow, secret, integrations, callback>>

\* handleCallback decoding the state value and checking its age only;
\* granted: Meta exchanged the code for a token
handleCallback(state, granted) ==
  LET r == decodeState(state, oauthNow)
      outcome == IF ~r.ok THEN r.error
                 ELSE IF granted THEN "connected" ELSE "token_error"
  IN /\ callback.seq < MaxCallbacks
     /\ callback' = [state |-> state, outcome |-> outcome, seq |-> callback.seq + 1]
     /\ integrations' = IF r.ok /\ granted
                          THEN upsertIntegration(state.data.workspace_id, state.data.user_id)
                          ELSE integrations
     /\ UNCHANGED <<delivery, routing, requests, testlog, oauthNow, secret, issued>>

\* handleCallback verifying the state value with verifyState
handleCallback_verified(state, granted) ==
  LET r == verifyState(state, secret, oauthNow)
      outcome == IF ~r.ok THEN r.error
                 ELSE IF granted THEN "connected" ELSE "token_error"
  IN /\ callback.seq < MaxCallbacks
     /\ callback' = [state |-> state, outcome |-> outcome, seq |-> callback.seq + 1]
     /\ integrations' = IF r.ok /\ granted
                          THEN integrations \cup {[workspace_id |-> state.data.workspace_id,
                                                   connected_by |-> state.data.user_id]}
                          ELSE integrations
     /\ UNCHANGED <<delivery, routing, requests, testlog, oauthNow, secret, issued>>

\* time passes between the OAuth requests
OAuthTick ==
  /\ \E t \in OAuthTimes : t > oauthNow /\ oauthNow' = t
  /\ UNCHANGED <<delivery, routing, requests, testlog, secret, issued, integrations, callback>>

\* the deployment's META_APP_SECRET is replaced
rotateSecret(k) ==
  /\ k # secret
  /\ secret' = k
  /\ UNCHANGED <<delivery, routing, requests, testlog, oauthNow, issued, integrations, callback>>

\* The OAuth start and callback handlers under any state parameter.
NextOAuth ==
  \/ \E w \in Workspaces, u \in Users : handleStart(w, u)
  \/ \E w \in Workspaces, u \in Users : handleStart_signed(w, u)
  \/ \E state \in StateParams, granted \in BOOLEAN : handleCallback(state, granted)
  \/ \E state \in StateParams, granted \in BOOLEAN : handleCallback_verified(state, granted)
  \/ OAuthTick
  \/ \E k \in Secrets : rotateSecret(k)

SpecOAuth == Init /\ [][NextOAuth]_vars

\* ------------------------------------------------------------- properties
Created == {e \in EventIds : events[e].exists}
Numbers(e) == {attempts[e][i].attempt_number : i \in 1..Len(attempts[e])}
LastCode(e) == attempts[e][Len(attempts[e])].status_code
AllFailed(e) == \A i \in 1..Len(attempts[e]) : ~Ok(attempts[e][i].status_code)

\* C1: whenever no attempt of an event is under way, attempts_count equals the
\* number of its DeliveryAttempt rows and their attempt_numbers are exactly
\* 1..attempts_count.
C1_CountMatchesRows ==
  \A e \in Created :
    InAttempt(e) = {} =>
      /\ events[e].attempts_count = Len(attempts[e])
      /\ Numbers(e) = 1..events[e].attempts_count

\* C2: at most one task is between marking an event processing and recording
\* the outcome of its attempt.
C2_AtMostOneInFlight ==
  \A e \in Created : Cardinality(InAttempt(e)) <= 1

\* C3: no two DeliveryAttempt rows of one event carry the same attempt_number.
C3_DistinctAttemptNumbers ==
  \A e \in Created :
    \A i, j \in 1..Len(attempts[e]) :
      i # j => attempts[e][i].attempt_number # attempts[e][j].attempt_number

\* C4: an event in status delivered has a most recent attempt with a 2xx
\* status_code, a non-null delivered_at and a null next_retry_at.
C4_DeliveredShape ==
  \A e \in Created :
    events[e].status = "delivered" =>
      /\ Len(attempts[e]) > 0
      /\ Ok(LastCode(e))
      /\ events[e].delivered_at # Null
      /\ events[e].next_retry_at = Null

\* C5: an event in status dlq has attempts_count = max_attempts, a most recent
\* attempt that was not a success, and a null next_retry_at.
C5_DlqShape ==
  \A e \in Created :
    events[e].status = "dlq" =>
      /\ events[e].attempts_count = events[e].max_attempts
      /\ Len(attempts[e]) > 0
      /\ ~Ok(LastCode(e))
      /\ events[e].next_retry_at = Null

\* C6: attempts_count never exceeds max_attempts and an event never has more
\* than max_attempts DeliveryAttempt rows.
C6_CountWithinMax ==
  \A e \in Created :
    /\ events[e].attempts_count <= events[e].max_attempts
    /\ Len(attempts[e]) <= events[e].max_attempts

\* C7: an event for which no resend was ever accepted never has attempts_count
\* above max_attempts.
C7_CountWithinMaxNoResend ==
  \A e \in Created :
    ~resent[e] => events[e].attempts_count <= events[e].max_attempts

\* C8: once an event is delivered its status never changes and no further
\* attempt is made for it.
C8_DeliveredTerminal ==
  [][\A e \in EventIds :
       (events[e].exists /\ events[e].status = "delivered") =>
         /\ events'[e].status = "delivered"
         /\ attempts'[e] = attempts[e]]_vars

\* C9: once an event is cancelled its status never changes and no attempt is
\* made for it.
C9_CancelledTerminal ==
  [][\A e \in EventIds :
       (events[e].exists /\ events[e].status = "cancelled") =>
         /\ events'[e].status = "cancelled"
         /\ attempts'[e] = attempts[e]]_vars

\* C10: with one task at a time, an event that was never resent and whose
\* attempts all failed is failed with a non-null next_retry_at after each of
\* its first max_attempts-1 attempts, and dlq with attempts_count =
\* max_attempts and a null next_retry_at after the attempt numbered
\* max_attempts; it is never attempted beyond that and is dlq only then.
C10_FailuresEndInDlq ==
  \A e \in Created :
    (~resent[e] /\ AllFailed(e)) =>
      LET n == Len(attempts[e])
          max == events[e].max_attempts
      IN /\ n <= max
         /\ Numbers(e) = 1..n
         /\ events[e].status = "dlq" => n = max
         /\ (InAttempt(e) = {} /\ n >= 1 /\ n < max) =>
              /\ events[e].status = "failed"
              /\ events[e].attempts_count = n
              /\ events[e].next_retry_at # Null
         /\ (InAttempt(e) = {} /\ n = max) =>
              /\ events[e].status = "dlq"
              /\ events[e].attempts_count = max
              /\ events[e].next_retry_at = Null

C10_Witness ==
  \E e \in Created :
    /\ ~resent[e]
    /\ AllFailed(e)
    /\ Len(attempts[e]) = DefaultMaxAttempts
    /\ events[e].max_attempts = DefaultMaxAttempts
    /\ events[e].status = "dlq"
    /\ events[e].attempts_count = DefaultMaxAttempts
    /\ events[e].next_retry_at = Null

\* C11 (as stated): a resend of an event in dlq with attempts_count =
\* max_attempts whose one further attempt fails leaves the event failed, with
\* attempts_count = max_attempts + 1.
C11_ResendOfDlqEndsFailed ==
  [][\A t \in Resenders :
       (/\ pc[t] = "final"
        /\ loc[t].seen = "dlq"
        /\ loc[t].attemptNumber = loc[t].max_attempts + 1
        /\ ~Ok(loc[t].statusCode)
        /\ pc'[t] = "idle") =>
         /\ events'[loc[t].ev].status = "failed"
         /\ events'[loc[t].ev].attempts_count = loc[t].max_attempts + 1]_vars

\* C11 (amended): with one task at a time, a resend of an event in dlq with
\* attempts_count = max_attempts moves it to pending without adding an attempt
\* and then makes exactly one more attempt, numbered max_attempts + 1; if that
\* attempt fails the event is dlq again, with attempts_count = max_attempts + 1
\* and a null next_retry_at.
C11_ResendOfDlqEndsDlq ==
  [][\A t \in Resenders :
       /\ (/\ pc[t] = "r_check"
           /\ loc[t].seen = "dlq"
           /\ events[loc[t].ev].attempts_count = events[loc[t].ev].max_attempts
           /\ pc'[t] = "read") =>
            /\ events'[loc[t].ev].status = "pending"
            /\ events'[loc[t].ev].attempts_count = events[loc[t].ev].max_attempts
            /\ attempts' = attempts
       /\ (/\ pc[t] = "final"
           /\ loc[t].seen = "dlq"
           /\ loc[t].attemptNumber = loc[t].max_attempts + 1
           /\ ~Ok(loc[t].statusCode)
           /\ pc'[t] = "idle") =>
            /\ events'[loc[t].ev].status = "dlq"
            /\ events'[loc[t].ev].attempts_count = loc[t].max_attempts + 1
            /\ events'[loc[t].ev].next_retry_at = Null
            /\ Len(attempts'[loc[t].ev]) = loc[t].max_attempts + 1
            /\ attempts' = attempts]_vars

C11_Witness ==
  \E t \in Resenders :
    /\ pc[t] = "final"
    /\ loc[t].seen = "dlq"
    /\ loc[t].attemptNumber = DefaultMaxAttempts + 1
    /\ loc[t].max_attempts = DefaultMaxAttempts
    /\ ~Ok(loc[t].statusCode)
    /\ Len(attempts[loc[t].ev]) = DefaultMaxAttempts + 1

\* C12: with one task at a time, an event whose first k attempts failed
\* (k < max_attempts) and whose next attempt got a 2xx is delivered with
\* attempts_count = k + 1 and exactly k + 1 DeliveryAttempt rows numbered
\* 1..k+1 in order, the first k failures and the last the success.
C12_RetryThenSuccess ==
  \A e \in Created :
    LET n == Len(attempts[e])
    IN (/\ n >= 1
        /\ n <= events[e].max_attempts
        /\ InAttempt(e) = {}
        /\ Ok(attempts[e][n].status_code)
        /\ \A i \in 1..(n - 1) : ~Ok(attempts[e][i].status_code)) =>
         /\ events[e].status = "delivered"
         /\ events[e].attempts_count = n
         /\ events[e].delivered_at # Null
         /\ \A i \in 1..n : attempts[e][i].attempt_number = i

C12_Witness ==
  \E e \in Created :
    /\ Len(attempts[e]) = 3
    /\ attempts[e][1].status_code = 500
    /\ attempts[e][2].status_code = 500
    /\ attempts[e][3].status_code = 200
    /\ InAttempt(e) = {}
    /\ events[e].status = "delivered"
    /\ events[e].attempts_count = 3

\* C13: when the webhook's inline attempt has failed, its last update leaves
\* the event failed with a non-null next_retry_at later than now; a failed
\* event always has a non-null next_retry_at and, from that time on, is in the
\* result of handleProcess's query; and a process cycle that starts then has
\* the event in its batch.
C13_InlineFailureKept ==
  /\ [][/\ \A t \in InlineTasks :
            (pc[t] = "i_final" /\ ~Ok(loc[t].statusCode) /\ pc'[t] = "done") =>
              /\ events'[loc[t].ev].status = "failed"
              /\ events'[loc[t].ev].next_retry_at # Null
              /\ events'[loc[t].ev].next_retry_at > now
              /\ attempts' = attempts
        /\ \A t \in Workers :
            (pc[t] = "idle" /\ pc'[t] = "read") =>
              \A e \in Created :
                (events[e].status = "failed" /\ events[e].next_retry_at <= now) =>
                  \E i \in 1..Len(loc'[t].batch) : loc'[t].batch[i] = e]_vars
  /\ [](\A e \in Created :
          events[e].status = "failed" =>
            /\ events[e].next_retry_at # Null
            /\ events[e].next_retry_at <= now =>
                 \E i \in 1..Len(ReadyBatch) : ReadyBatch[i] = e)

C13_Witness ==
  \E e \in Created : \E t \in Workers :
    /\ pc[InlineTask(e)] = "done"
    /\ Len(attempts[e]) = 1
    /\ attempts[e][1].attempt_number = 1
    /\ ~Ok(attempts[e][1].status_code)
    /\ now >= InlineRetryMs
    /\ loc[t].ev = e
    /\ pc[t] = "fetch"
    /\ loc[t].attemptNumber = 2

\* C14: the backoff of the attempt numbered n is 1, 2, 4, 8, 16, 32 minutes
\* for n = 1..6 and 60 minutes from n = 7 on; and when the attempt numbered n
\* fails with n < max_attempts, the task's last update leaves the event failed
\* with next_retry_at = now + that delay, for a worker or resend attempt as
\* for the webhook's inline attempt (n = 1).
C14_BackoffDelay ==
  /\ [](LET minutes == <<1, 2, 4, 8, 16, 32>>
        IN \A n \in 1..MaxAttemptNumber :
             backoffMs(n) = IF n <= 6 THEN minutes[n] * 60000 ELSE 3600000)
  /\ [][LET minutes == <<1, 2, 4, 8>>
        IN /\ \A t \in DeliveryTasks :
               (/\ pc[t] = "final"
                /\ ~Ok(loc[t].statusCode)
                /\ loc[t].attemptNumber < loc[t].max_attempts
                /\ pc'[t] # "final") =>
                 /\ events'[loc[t].ev].status = "failed"
                 /\ events'[loc[t].ev].next_retry_at =
                      now + minutes[loc[t].attemptNumber] * 60000
           /\ \A t \in InlineTasks :
               (pc[t] = "i_final" /\ ~Ok(loc[t].statusCode) /\ pc'[t] = "done") =>
                 /\ events'[loc[t].ev].status = "failed"
                 /\ events'[loc[t].ev].next_retry_at = now + minutes[1] * 60000]_vars

C14_Witness ==
  \E e \in Created :
    /\ events[e].status = "failed"
    /\ events[e].attempts_count = 4
    /\ Len(attempts[e]) = 4
    /\ InAttempt(e) = {}
    /\ events[e].failed_at = now
    /\ events[e].next_retry_at = now + 480000

\* C15 (as stated): over the successive transitions to failed of one event,
\* the gap between the newly set next_retry_at and the one set before it is
\* non-decreasing, gaps of an hour or more counting as the cap.
C15_RetryGapsNonDecreasing ==
  \A e \in Created :
    \A i \in 3..Len(failedLog[e]) :
      Min(failedLog[e][i].retry - failedLog[e][i - 1].retry, BackoffCapMs) >=
        Min(failedLog[e][i - 1].retry - failedLog[e][i - 2].retry, BackoffCapMs)

\* C15 (amended): over the transitions to failed of one event, the delay
\* between the transition and the next_retry_at it sets is non-decreasing in
\* the number of the attempt that failed, and never more than the one-hour cap.
C15_BackoffDelaysNonDecreasing ==
  \A e \in Created :
    \A i, j \in 1..Len(failedLog[e]) :
      /\ failedLog[e][i].retry - failedLog[e][i].at <= BackoffCapMs
      /\ failedLog[e][i].n <= failedLog[e][j].n =>
           failedLog[e][i].retry - failedLog[e][i].at <=
             failedLog[e][j].retry - failedLog[e][j].at

C15_Witness ==
  \E e \in Created :
    /\ Len(failedLog[e]) = 3
    /\ \A i \in 1..3 : failedLog[e][i].n = i
    /\ failedLog[e][2].at > failedLog[e][1].retry
    /\ failedLog[e][3].retry - failedLog[e][2].retry <
         failedLog[e][2].retry - failedLog[e][1].retry
    /\ failedLog[e][3].retry - failedLog[e][3].at >
         failedLog[e][2].retry - failedLog[e][2].at

\* C16: a resend request for an event that is pending, processing, delivered
\* or cancelled when the request is decided is answered with an error, changes
\* nothing of the event and adds no attempt.
C16_ResendOnlyFromFailedOrDlq ==
  [][\A t \in Resenders :
       (/\ pc[t] = "r_check"
        /\ pc'[t] # "r_check"
        /\ events[loc[t].ev].status \in
             {"pending", "processing", "delivered", "cancelled"}) =>
         /\ events'[loc[t].ev] = events[loc[t].ev]
         /\ attempts' = attempts
         /\ pc'[t] = "idle"
         /\ reply'[t] >= 400]_vars

\* C17: a resend or test request of a caller who is not a current member of
\* the workspace (user 2, whose membership row is deleted, or user 3, who has
\* none) is answered 403 by the step that follows its reads, which changes no
\* DeliveryEvent and no DeliveryAttempt; such a request is never at a fetch of
\* the destination or at any step of deliverEvent.
C17_NonMemberForbidden ==
  /\ [][\A t \in Resenders \cup Testers :
          (/\ pc[t] \in {"r_check", "t_check"}
           /\ loc[t].user \in {2, 3}
           /\ pc'[t] # pc[t]) =>
            /\ reply'[t] = 403
            /\ pc'[t] = "idle"
            /\ events' = events
            /\ attempts' = attempts]_vars
  /\ [](\A t \in Resenders \cup Testers :
          loc[t].user \in {2, 3} => pc[t] \in {"r_check", "t_check"})

C17_Witness ==
  /\ \E e \in Created : events[e].status = "failed" /\ ~resent[e]
  /\ \E t \in Resenders : reply[t] = 403 /\ pc[t] = "idle"
  /\ \E t \in Testers : reply[t] = 403 /\ pc[t] = "idle"

\* C18: every DeliveryEvent created for an inbound change that carries a
\* source identifier belongs to the tenant that owns that source.
C18_TenantScopedRoutes ==
  \A ev \in enqueued :
    ev.source_id # NullText => ev.workspace_id = SourceOwner(ev.source_id)

\* C19: the routes for which the last processed change created events are
\* exactly the routes (with an active destination) that are active, not
\* deleted, of the change's source_type, and whose source_id equals the
\* change's source_id or is absent, when every insert succeeded; a route with a
\* specific source_id gets none from a change with another source_id or with
\* none.
C19_ExactRouteMatch ==
  (received > 0 /\ lost = {}) =>
    {ev.route_id : ev \in {x \in enqueued : x.seq = received}} =
      {r \in RouteIds :
         /\ routes[r].is_active
         /\ routes[r].deleted_at = Null
         /\ routes[r].dest_active
         /\ routes[r].source_type = inbound.source_type
         /\ (routes[r].source_id = inbound.source_id \/ routes[r].source_id = NullText)}

\* C20: a WhatsApp route whose filter_rules are not null gets events only for
\* the event types its filter lists: a route with event_types = [messages]
\* gets none for a status_read change.
C20_FilterRulesApplied ==
  \A ev \in enqueued :
    (ev.source_type = "whatsapp" /\ ~routes[ev.route_id].filter_rules.is_null) =>
      ev.event_type \in routes[ev.route_id].filter_rules.event_types

\* C21: for the change processed last, every created DeliveryEvent is pending
\* with next_retry_at = now and attempts_count = 0 and belongs to a matched
\* route, no route has two, the response is 200 with processed equal to the
\* number of events created, and when no insert failed every matched route
\* has exactly one.
C21_OneEventPerMatchedRoute ==
  received > 0 =>
    LET last == {x \in enqueued : x.seq = received}
        matched == findMatchingRoutes(inbound.source_type, inbound.source_id)
    IN /\ \A x \in last :
            /\ x.status = "pending"
            /\ x.next_retry_at = now
            /\ x.attempts_count = 0
            /\ x.route_id \in matched
       /\ \A r \in RouteIds : Cardinality({x \in last : x.route_id = r}) <= 1
       /\ response.status = 200
       /\ response.processed = Cardinality(last)
       /\ lost = {} =>
            \A r \in matched : Cardinality({x \in last : x.route_id = r}) = 1

C21_Witness ==
  /\ received > 0
  /\ lost = {}
  /\ Cardinality(findMatchingRoutes(inbound.source_type, inbound.source_id)) = 2
  /\ Cardinality(enqueued) = 2
  /\ response.processed = 2

\* C22: a webhook POST during which the insert of a matched route's
\* DeliveryEvent failed is answered 500.
C22_EnqueueFailureAnswers500 ==
  lost # {} => response.status = 500

\* C23: every request sent to a destination with auth_type = hmac, by the
\* inline delivery, by a worker or resend delivery or by a test call, carries
\* a header X-Hub-Signature-256 with a sha256= value.
C23_HmacSignatureHeader ==
  \A q \in requests :
    q.auth_type = "hmac" =>
      \E h \in q.headers : h.name = "X-Hub-Signature-256" /\ h.scheme = "sha256="

\* C24: an OAuth callback that stores an integration was given a state value
\* that a start handler returned and that carries an HMAC signature; a state
\* value made up by the caller stores none.
C24_ForgedStateRejected ==
  callback.outcome = "connected" =>
    /\ callback.state \in issued
    /\ callback.state.sig # NoSignature

\* C25: once a destination is deleted, no DeliveryEvent is created for it and
\* no DeliveryAttempt is made to it, by the webhook's inline delivery, by a
\* process cycle or by a resend.
C25_NoDeliveryToDeletedDestination ==
  [][\A e \in EventIds :
       destinations[events'[e].destination_id].deleted_at # Null =>
         /\ events'[e].exists = events[e].exists
         /\ Len(attempts'[e]) = Len(attempts[e])]_vars

\* C26: a test call that is answered with the destination's result has made
\* exactly one HTTP call and returns what that call gave (success only for a
\* 2xx), and no step of a test call creates or changes a DeliveryEvent or a
\* DeliveryAttempt, whatever the outcome.
C26_TestWritesNothing ==
  /\ [](\A t \in Testers :
          (pc[t] = "idle" /\ reply[t] = 200) =>
            /\ testlog.calls = 1
            /\ testlog.body.status_code = testlog.fetched
            /\ testlog.body.success = (testlog.fetched >= 200 /\ testlog.fetched <= 299))
  /\ [][(\E t \in Testers : pc'[t] # pc[t] \/ reply'[t] # reply[t]) =>
          /\ events' = events
          /\ attempts' = attempts]_vars

C26_Witness ==
  \E t \in Testers, e \in EventIds :
    /\ pc[t] = "idle"
    /\ reply[t] = 200
    /\ testlog.calls = 1
    /\ testlog.fetched = 500
    /\ ~testlog.body.success
    /\ events[e].exists
    /\ events[e].status = "failed"
    /\ Len(attempts[e]) = 1

\* C27: no step lowers the attempts_count of an event, under any interleaving
\* of the webhook's inline delivery, process cycles and resends.
C27_AttemptsCountNeverDecreases ==
  [][\A e \in EventIds :
       events[e].exists => events'[e].attempts_count >= events[e].attempts_count]_vars

\* C28: a process cycle or a resend that reads an event whose destination is
\* inactive goes to the cancel branch and from there back to its caller; the
\* cancel step leaves the event cancelled with error_message "Destination
\* inactive", appends no DeliveryAttempt and leaves attempts_count as it was.
C28_InactiveDestinationCancels ==
  [][\A t \in DeliveryTasks :
       /\ (/\ pc[t] = "read"
           /\ pc'[t] # pc[t]
           /\ ~destinations[events[loc[t].ev].destination_id].is_active) =>
             /\ pc'[t] = "cancel"
             /\ events' = events
             /\ attempts' = attempts
       /\ (pc[t] = "cancel" /\ pc'[t] # pc[t]) =>
             /\ pc'[t] \in {"idle", "read", "done"}
             /\ events'[loc[t].ev].status = "cancelled"
             /\ events'[loc[t].ev].error_message = "Destination inactive"
             /\ events'[loc[t].ev].attempts_count = events[loc[t].ev].attempts_count
             /\ attempts' = attempts]_vars

C28_Witness ==
  \E e \in Created :
    /\ events[e].status = "cancelled"
    /\ events[e].error_message = "Destination inactive"
    /\ ~destinations[events[e].destination_id].is_active
    /\ events[e].attempts_count = 1
    /\ Len(attempts[e]) = 1
    /\ resent[e]

\* C29: when a process cycle performs an attempt on an event, the event's
\* next_retry_at does not lie in the future, also when several cycles and the
\* inline delivery work on the same event.
C29_NoAttemptBeforeRetryTime ==
  [][\A t \in Workers :
       (pc[t] = "fetch" /\ pc'[t] # pc[t]) =>
         events[loc[t].ev].next_retry_at <= now]_vars

\* C30: while process cycles keep running and time advances, every
\* DeliveryEvent eventually is delivered, dlq or cancelled, also when a task
\* stopped between marking it processing and recording the outcome.
C30_EveryEventTerminates ==
  \A e \in EventIds :
    events[e].exists ~> events[e].status \in {"delivered", "dlq", "cancelled"}
====
